---- MODULE Spec2Model ----
(***************************************************************************)
(* A model of fetch_data.py, the Crypto Trend Index data fetcher:          *)
(*   parse_trend_date, fetch_google_trends, fetch_bitcoin_price_daily,     *)
(*   calculate_trend_index, find_closest_price and main.                   *)
(*                                                                         *)
(* Representation.                                                         *)
(*   - A date (datetime.date, or a datetime at midnight) is a record       *)
(*     [year, month, day]; date arithmetic goes through the proleptic      *)
(*     Gregorian ordinal, as datetime does.                                *)
(*   - A text is a sequence of lexical tokens [k, v, w]: a month name      *)
(*     (abbreviated or full), a run of digits (value v, width w), a run of *)
(*     whitespace, a comma, a slash, an en dash or a hyphen.               *)
(*   - An ISO text produced by strftime is the sequence of its character   *)
(*     codes, so that texts compare as Python strings do.                  *)
(*   - An optional value (None or a value) is [none, val].                 *)
(*   - A trend value averaged by calculate_trend_index is kept in tenths   *)
(*     (15.5 is 155); a price is kept in thousandths and a price rounded   *)
(*     to two decimals in hundredths.                                      *)
(***************************************************************************)
EXTENDS Integers, Sequences, FiniteSets, TLC

VARIABLES
    \* parse_trend_date, run on its own
    date_str,       \* the argument
    now_year,       \* datetime.now().year
    parsed,         \* the value returned
    ppc,            \* "call" or "returned"
    \* fetch_google_trends, run on its own
    response,       \* what requests.get and response.json() give
    ret,            \* the list returned
    fpc,            \* "call" or "returned"
    \* calculate_trend_index, run on its own
    all_trends_data,\* the argument
    averaged,       \* the mapping returned
    cpc,            \* "call" or "returned"
    \* find_closest_price, run on its own
    target_date, prices_arg, max_days,      \* the arguments
    closest,        \* the value returned
    xpc,            \* "call" or "returned"
    \* main
    pc,             \* the position in main
    SERPAPI_KEY,    \* is the environment variable set
    kw,             \* the index in KEYWORDS of the next keyword
    fetched,        \* the answers the trend requests got so far, per keyword
    all_trends, trend_index, btc_prices,
    sorted_dates,
    di,             \* the index in sorted_dates of the next date
    final_dates, final_prices, final_index,
    data_file,      \* None while data.json is as it was before the run
    outcome         \* the last line main printed

pvars == <<date_str, parsed, ppc>>
fvars == <<response, ret, fpc>>
cvars == <<all_trends_data, averaged, cpc>>
xvars == <<target_date, prices_arg, max_days, closest, xpc>>
mvars == <<pc, SERPAPI_KEY, kw, fetched, all_trends, trend_index, btc_prices,
           sorted_dates, di, final_dates, final_prices, final_index, data_file,
           outcome>>
vars == <<now_year, pvars, fvars, cvars, xvars, mvars>>

----------------------------------------------------------------------------
(* Optional values *)

None == [none |-> TRUE, val |-> 0]
Some(v) == [none |-> FALSE, val |-> v]

----------------------------------------------------------------------------
(* The calendar of datetime *)

IsLeap(y) == (y % 4 = 0) /\ ((y % 100 # 0) \/ (y % 400 = 0))

DaysInMonth(y, m) ==
    IF m = 2 THEN (IF IsLeap(y) THEN 29 ELSE 28)
    ELSE IF m \in {4, 6, 9, 11} THEN 30 ELSE 31

DaysBeforeYear(y) ==
    (y - 1) * 365 + ((y - 1) \div 4) - ((y - 1) \div 100) + ((y - 1) \div 400)

RECURSIVE DaysBeforeMonth(_, _)
DaysBeforeMonth(y, m) ==
    IF m = 1 THEN 0 ELSE DaysBeforeMonth(y, m - 1) + DaysInMonth(y, m - 1)

Date(y, m, d) == [year |-> y, month |-> m, day |-> d]

ValidDate(y, m, d) ==
    /\ y \in 1..9999
    /\ m \in 1..12
    /\ d \in 1..DaysInMonth(y, m)

toordinal(dt) == DaysBeforeYear(dt.year) + DaysBeforeMonth(dt.year, dt.month) + dt.day

fromordinal(n) ==
    LET y == CHOOSE yy \in (n \div 366)..((n \div 365) + 1) :
                 DaysBeforeYear(yy) < n /\ n <= DaysBeforeYear(yy + 1)
        r == n - DaysBeforeYear(y)
        m == CHOOSE mm \in 1..12 :
                 DaysBeforeMonth(y, mm) < r /\ r <= DaysBeforeMonth(y, mm) + DaysInMonth(y, mm)
    IN  Date(y, m, r - DaysBeforeMonth(y, m))

\* date + timedelta(days=n)
AddDays(dt, n) == fromordinal(toordinal(dt) + n)

\* date < date
DateLess(a, b) ==
    \/ a.year < b.year
    \/ a.year = b.year /\ a.month < b.month
    \/ a.year = b.year /\ a.month = b.month /\ a.day < b.day

----------------------------------------------------------------------------
(* Texts as token sequences *)

Tok(k, v, w) == [k |-> k, v |-> v, w |-> w]
Abbr(m) == Tok("abbr", m, 0)        \* Jan, Feb, ...
Full(m) == Tok("full", m, 0)        \* January, February, ...
Num(v, w) == Tok("num", v, w)       \* w digits of value v
Sp == Tok("sp", 0, 0)               \* one or more whitespace characters
Comma == Tok("comma", 0, 0)
Slash == Tok("slash", 0, 0)
EnDash == Tok("endash", 0, 0)
Hyphen == Tok("hyphen", 0, 0)

\* the number of decimal digits of n written without padding
Width(n) == IF n < 10 THEN 1 ELSE IF n < 100 THEN 2 ELSE IF n < 1000 THEN 3 ELSE 4

\* str.strip()
RECURSIVE lstrip(_)
lstrip(s) == IF s # <<>> /\ Head(s) = Sp THEN lstrip(Tail(s)) ELSE s

RECURSIVE rstrip(_)
rstrip(s) ==
    IF s # <<>> /\ s[Len(s)] = Sp THEN rstrip(SubSeq(s, 1, Len(s) - 1)) ELSE s

strip(s) == rstrip(lstrip(s))

IsSeparator(t) == t.k \in {"endash", "hyphen"}

HasSeparator(s) == \E i \in 1..Len(s) : IsSeparator(s[i])

\* re.split(r'[–-]', s)[0]: the text before the first separator
RECURSIVE SplitFirst(_)
SplitFirst(s) ==
    IF s = <<>> \/ IsSeparator(Head(s)) THEN <<>>
    ELSE <<Head(s)>> \o SplitFirst(Tail(s))

----------------------------------------------------------------------------
(* datetime.strptime for the directives the formats use *)

formats == <<
    <<"%b", " ", "%d", ",", " ", "%Y">>,      \* Jan 5, 2025
    <<"%B", " ", "%d", ",", " ", "%Y">>,      \* January 5, 2025
    <<"%b", " ", "%d", " ", "%Y">>,           \* Jan 5 2025
    <<"%Y", "-", "%m", "-", "%d">>,           \* 2025-01-05
    <<"%b", " ", "%d">>                       \* Jan 5 (no year)
  >>

\* does token t match format element e
Matches(e, t) ==
    CASE e = "%b" -> t.k = "abbr"
      [] e = "%B" -> t.k = "full" \/ (t.k = "abbr" /\ t.v = 5)   \* "May" is both
      [] e = "%d" -> t.k = "num" /\ t.w \in 1..2 /\ t.v \in 1..31
      [] e = "%m" -> t.k = "num" /\ t.w \in 1..2 /\ t.v \in 1..12
      [] e = "%Y" -> t.k = "num" /\ t.w = 4
      [] e = " "  -> t.k = "sp"
      [] e = ","  -> t.k = "comma"
      [] e = "-"  -> t.k = "hyphen"
      [] OTHER    -> FALSE

\* the value of directive e in text s under format fmt, or dflt when fmt lacks e
Field(fmt, s, es, dflt) ==
    IF \E i \in 1..Len(fmt) : fmt[i] \in es
    THEN s[CHOOSE i \in 1..Len(fmt) : fmt[i] \in es].v
    ELSE dflt

\* datetime.strptime(s, fmt): None stands for ValueError
strptime(s, fmt) ==
    IF Len(s) # Len(fmt) \/ (\E i \in 1..Len(fmt) : ~Matches(fmt[i], s[i]))
    THEN None
    ELSE LET y == Field(fmt, s, {"%Y"}, 1900)
             m == Field(fmt, s, {"%b", "%B", "%m"}, 1)
             d == Field(fmt, s, {"%d"}, 1)
         IN  IF ValidDate(y, m, d) THEN Some(Date(y, m, d)) ELSE None

\* the loop over formats, from format i on
RECURSIVE TryFormats(_, _, _)
TryFormats(s, i, now) ==
    IF i > Len(formats) THEN None
    ELSE LET p == strptime(s, formats[i])
         IN  IF p.none THEN TryFormats(s, i + 1, now)
             ELSE IF p.val.year = 1900
                  THEN Some([p.val EXCEPT !.year = now])
                  ELSE p

\* parse_trend_date(date_str), run in year now
parse_trend_date(s, now) ==
    LET s1 == strip(s)
        s2 == IF HasSeparator(s1) THEN strip(SplitFirst(s1)) ELSE s1
    IN  TryFormats(s2, 1, now)

----------------------------------------------------------------------------
(* Date texts handed to parse_trend_date *)

TextAbbrDY(m, d, y) == <<Abbr(m), Sp, Num(d, Width(d)), Comma, Sp, Num(y, 4)>>
TextFullDY(m, d, y) == <<Full(m), Sp, Num(d, Width(d)), Comma, Sp, Num(y, 4)>>
TextAbbrDYNoComma(m, d, y) == <<Abbr(m), Sp, Num(d, Width(d)), Sp, Num(y, 4)>>
TextISO(m, d, y) == <<Num(y, 4), Hyphen, Num(m, 2), Hyphen, Num(d, 2)>>
TextUS(m, d, y) == <<Num(m, Width(m)), Slash, Num(d, Width(d)), Slash, Num(y, 4)>>
TextAbbrD(m, d) == <<Abbr(m), Sp, Num(d, Width(d))>>
\* "Jan 5 – 11, 2025"
TextRange(m, d, d2, y, sep) ==
    <<Abbr(m), Sp, Num(d, Width(d)), Sp, sep, Sp, Num(d2, Width(d2)), Comma, Sp, Num(y, 4)>>
\* "Dec 29, 2024 – Jan 4, 2025"
TextRangeYears(m, d, y, m2, d2, y2, sep) ==
    TextAbbrDY(m, d, y) \o <<Sp, sep, Sp>> \o TextAbbrDY(m2, d2, y2)

----------------------------------------------------------------------------
(* fetch_google_trends *)

\* a raw extracted_value of the JSON: an integer, the text "<1", a numeral
\* text such as "12", a text that is no numeral such as "n/a", or null/absent
RawInt(n) == [t |-> "int", n |-> n]
RawLess == [t |-> "lt", n |-> 0]
RawNumeral(n) == [t |-> "numeral", n |-> n]
RawText == [t |-> "text", n |-> 0]
RawNull == [t |-> "null", n |-> 0]

Item(text, values) == [date |-> text, values |-> values]

\* one record of results
Point(dt, v) == [date |-> dt, value |-> v]

HttpError == [status |-> "error", has_timeline |-> FALSE, timeline |-> <<>>]
NoTimeline == [status |-> "ok", has_timeline |-> FALSE, timeline |-> <<>>]
Timeline(tl) == [status |-> "ok", has_timeline |-> TRUE, timeline |-> tl]

\* lines 73-79 on values[0].extracted_value: the integer appended, or None
\* when int() raises ValueError
ConvertValue(raw) ==
    LET value == IF raw.t = "lt" THEN RawInt(0) ELSE raw
    IN  CASE value.t = "int" -> Some(value.n)
          [] value.t = "null" -> Some(0)
          [] value.t = "numeral" -> Some(value.n)
          [] value.t = "text" -> None

\* the body of the loop over timeline, from item i on, results so far acc:
\* [raised, results]; raised when an exception left the loop
RECURSIVE TimelineLoop(_, _, _, _)
TimelineLoop(tl, i, acc, now) ==
    IF i > Len(tl) THEN [raised |-> FALSE, results |-> acc]
    ELSE LET item == tl[i]
             parsed_date == parse_trend_date(item.date, now)
         IN  IF ~parsed_date.none /\ item.values # <<>>
             THEN LET c == ConvertValue(item.values[1])
                  IN  IF c.none THEN [raised |-> TRUE, results |-> acc]
                      ELSE TimelineLoop(tl, i + 1,
                                        Append(acc, Point(parsed_date.val, c.val)), now)
             ELSE TimelineLoop(tl, i + 1, acc, now)

\* did the call end in the except clause
FetchRaised(resp, now) ==
    \/ resp.status = "error"
    \/ resp.has_timeline /\ TimelineLoop(resp.timeline, 1, <<>>, now).raised

\* fetch_google_trends(keyword) when the request is answered by resp
fetch_google_trends(resp, now) ==
    IF resp.status = "error" THEN <<>>
    ELSE IF resp.has_timeline
         THEN LET r == TimelineLoop(resp.timeline, 1, <<>>, now)
              IN  IF r.raised THEN <<>> ELSE r.results
         ELSE <<>>

----------------------------------------------------------------------------
(* fetch_bitcoin_price_daily *)

\* a kline: datetime.fromtimestamp(candle[0] / 1000).date() and float(candle[4])
Candle(dt, close) == [date |-> dt, close |-> close]

PriceError == [status |-> "error", data |-> <<>>]
Klines(data) == [status |-> "ok", data |-> data]

\* the dict comprehension over data: a later candle of a date replaces an
\* earlier one
RECURSIVE CandleDict(_)
CandleDict(data) ==
    IF data = <<>> THEN <<>>
    ELSE LET before == CandleDict(SubSeq(data, 1, Len(data) - 1))
             last == data[Len(data)]
         IN  [dt \in DOMAIN before \cup {last.date} |->
                 IF dt = last.date THEN last.close ELSE before[dt]]

\* fetch_bitcoin_price_daily() when the request is answered by resp
fetch_bitcoin_price_daily(resp) ==
    IF resp.status = "error" THEN <<>> ELSE CandleDict(resp.data)

----------------------------------------------------------------------------
(* calculate_trend_index *)

\* the items of all keywords, in the order the two nested loops visit them
RECURSIVE Flatten(_)
Flatten(all) == IF all = <<>> THEN <<>> ELSE Head(all) \o Flatten(Tail(all))

\* datetime.date(): the calendar date of a datetime
DateOf(dt) == Date(dt.year, dt.month, dt.day)

\* date_values after the loops: date -> the list of the values appended
RECURSIVE Collect(_, _)
Collect(items, date_values) ==
    IF items = <<>> THEN date_values
    ELSE LET item == Head(items)
             date == DateOf(item.date)
             dv == IF date \in DOMAIN date_values THEN date_values
                   ELSE [x \in DOMAIN date_values \cup {date} |->
                            IF x = date THEN <<>> ELSE date_values[x]]
         IN  Collect(Tail(items), [dv EXCEPT ![date] = Append(@, item.value)])

RECURSIVE Sum(_)
Sum(values) == IF values = <<>> THEN 0 ELSE Head(values) + Sum(Tail(values))

\* round(total / n, 1), in tenths: Python rounds a tie to the even digit (a tie
\* is total/n = x.25 or x.75 for n < 20, which a float holds exactly)
Round1(total, n) ==
    LET q == (10 * total) \div n
        r == (10 * total) % n
    IN  IF 2 * r < n THEN q
        ELSE IF 2 * r > n THEN q + 1
        ELSE IF q % 2 = 0 THEN q ELSE q + 1

\* calculate_trend_index dividing by the number of keyword lists instead of
\* the number of values the date has
calculate_trend_index_per_keyword(all) ==
    IF all = <<>> THEN <<>>
    ELSE LET date_values == Collect(Flatten(all), <<>>)
         IN  [date \in DOMAIN date_values |-> Round1(Sum(date_values[date]), Len(all))]

calculate_trend_index(all) ==
    IF all = <<>> THEN <<>>
    ELSE LET date_values == Collect(Flatten(all), <<>>)
         IN  [date \in DOMAIN date_values |->
                 Round1(Sum(date_values[date]), Len(date_values[date]))]

----------------------------------------------------------------------------
(* find_closest_price *)

max_days_default == 3

\* the later date tried before the earlier one
directions_later_first == <<0, 1, -1>>

directions == <<0, -1, 1>>

\* the two nested loops, from (offset, directions[j]) on
RECURSIVE ClosestFrom(_, _, _, _, _)
ClosestFrom(target, prices, maxd, offset, j) ==
    IF offset > maxd THEN None
    ELSE IF j > Len(directions)
         THEN ClosestFrom(target, prices, maxd, offset + 1, 1)
         ELSE LET check_date == IF directions[j] # 0
                                THEN AddDays(target, offset * directions[j])
                                ELSE target
              IN  IF check_date \in DOMAIN prices THEN Some(prices[check_date])
                  ELSE ClosestFrom(target, prices, maxd, offset, j + 1)

find_closest_price(target, prices, maxd) == ClosestFrom(target, prices, maxd, 0, 1)

----------------------------------------------------------------------------
(* The helpers of main *)

\* bool(price) for price a float or None
Truthy(price) == ~price.none /\ price.val # 0

\* round(price, 2): thousandths to hundredths (Prices holds no price with a
\* third decimal of 5, whose rounding depends on the float nearest to it)
Round2(price) ==
    LET q == price \div 10
        r == price % 10
    IN  IF r < 5 THEN q
        ELSE IF r > 5 THEN q + 1
        ELSE IF q % 2 = 0 THEN q ELSE q + 1

\* sorted(dates, reverse=True)
RECURSIVE sorted_descending(_)
sorted_descending(dates) ==
    IF dates = {} THEN <<>>
    ELSE LET greatest == CHOOSE a \in dates : \A b \in dates \ {a} : DateLess(b, a)
         IN  <<greatest>> \o sorted_descending(dates \ {greatest})

\* sorted(dates)
RECURSIVE sorted(_)
sorted(dates) ==
    IF dates = {} THEN <<>>
    ELSE LET least == CHOOSE a \in dates : \A b \in dates \ {a} : DateLess(a, b)
         IN  <<least>> \o sorted(dates \ {least})

\* the character codes of n written with w digits
RECURSIVE Digits(_, _)
Digits(n, w) == IF w = 0 THEN <<>> ELSE Digits(n \div 10, w - 1) \o <<48 + (n % 10)>>

\* date.strftime('%Y-%m-%d')
strftime(dt) == Digits(dt.year, 4) \o <<45>> \o Digits(dt.month, 2) \o <<45>>
                \o Digits(dt.day, 2)

\* the output written to DATA_FILE
Output(dates, prices, index) ==
    [dates |-> dates, btc_prices |-> prices, trend_index |-> index]

----------------------------------------------------------------------------
(* Each function when it is not the one being run *)

ParseIdle == date_str = <<>> /\ parsed = None /\ ppc = "idle"
FetchIdle == response = HttpError /\ ret = <<>> /\ fpc = "idle"
CalcIdle == all_trends_data = <<>> /\ averaged = <<>> /\ cpc = "idle"
ClosestIdle ==
    /\ target_date = Date(1, 1, 1) /\ prices_arg = <<>> /\ max_days = 0
    /\ closest = None /\ xpc = "idle"
MainIdle ==
    /\ pc = "idle" /\ SERPAPI_KEY = FALSE /\ kw = 1 /\ fetched = <<>>
    /\ all_trends = <<>> /\ trend_index = <<>> /\ btc_prices = <<>>
    /\ sorted_dates = <<>> /\ di = 1
    /\ final_dates = <<>> /\ final_prices = <<>> /\ final_index = <<>>
    /\ data_file = None /\ outcome = "started"

RECURSIVE SeqsUpTo(_, _)
SeqsUpTo(S, n) ==
    IF n = 0 THEN {<<>>}
    ELSE LET shorter == SeqsUpTo(S, n - 1)
         IN  shorter \cup {Append(q, x) : <<q, x>> \in shorter \X S}

----------------------------------------------------------------------------
(* parse_trend_date on its own *)

PMonths == {1, 2, 5}
PDays == {5, 9, 29}
PYears == {2024, 2025}
NowYears == {2025, 2026}

RangeEnd(d) == IF d < 11 THEN 11 ELSE 31

DateTexts ==
    {<<>>}
    \cup UNION {{TextAbbrDY(m, d, y), TextFullDY(m, d, y), TextAbbrDYNoComma(m, d, y),
                 TextISO(m, d, y), TextUS(m, d, y), TextAbbrD(m, d),
                 <<Sp>> \o TextAbbrDY(m, d, y) \o <<Sp>>,
                 TextRange(m, d, RangeEnd(d), y, EnDash),
                 TextRange(m, d, RangeEnd(d), y, Hyphen),
                 TextRangeYears(m, d, y, 1, 4, y + 1, EnDash)}
                : <<m, d, y>> \in PMonths \X PDays \X PYears}

ParseInit ==
    /\ date_str \in DateTexts
    /\ now_year \in NowYears
    /\ parsed = None
    /\ ppc = "call"
    /\ FetchIdle /\ CalcIdle /\ ClosestIdle /\ MainIdle

Parse ==
    /\ ppc = "call"
    /\ parsed' = parse_trend_date(date_str, now_year)
    /\ ppc' = "returned"
    /\ UNCHANGED <<date_str, now_year, fvars, cvars, xvars, mvars>>

ParseNext == Parse

SpecParse == ParseInit /\ [][ParseNext]_vars

----------------------------------------------------------------------------
(* fetch_google_trends on its own *)

MaxTimeline == 3

FetchTexts == {TextAbbrDY(1, 5, 2025), TextAbbrDY(1, 12, 2025), TextUS(1, 19, 2025)}
FetchValues == {<<>>, <<RawInt(10)>>, <<RawLess>>, <<RawNumeral(12)>>, <<RawText>>,
                <<RawNull>>}
FetchItems == {Item(t, v) : <<t, v>> \in FetchTexts \X FetchValues}

FetchResponses ==
    {HttpError, NoTimeline} \cup {Timeline(tl) : tl \in SeqsUpTo(FetchItems, MaxTimeline)}

FetchInit ==
    /\ response \in FetchResponses
    /\ now_year \in NowYears
    /\ ret = <<>>
    /\ fpc = "call"
    /\ ParseIdle /\ CalcIdle /\ ClosestIdle /\ MainIdle

Fetch ==
    /\ fpc = "call"
    /\ ret' = fetch_google_trends(response, now_year)
    /\ fpc' = "returned"
    /\ UNCHANGED <<response, now_year, pvars, cvars, xvars, mvars>>

FetchNext == Fetch

SpecFetch == FetchInit /\ [][FetchNext]_vars

----------------------------------------------------------------------------
(* calculate_trend_index on its own *)

CalcKeywords == 3

CalcDates == {Date(2025, 1, 5), Date(2025, 1, 12)}
\* the values a keyword may have at the first date and at the second
CalcValues == {10, 15, 20, 21}
CalcValuesLater == {10, 21}

\* a keyword's list: at most one point per date, in ascending date order
CalcSeries ==
    {<<>>}
    \cup {<<Point(Date(2025, 1, 5), v)>> : v \in CalcValues}
    \cup {<<Point(Date(2025, 1, 12), w)>> : w \in CalcValuesLater}
    \cup {<<Point(Date(2025, 1, 5), v), Point(Date(2025, 1, 12), w)>> :
             <<v, w>> \in CalcValues \X CalcValuesLater}

CalcInit ==
    /\ all_trends_data \in SeqsUpTo(CalcSeries, CalcKeywords)
    /\ averaged = <<>>
    /\ cpc = "call"
    /\ now_year = 2026
    /\ ParseIdle /\ FetchIdle /\ ClosestIdle /\ MainIdle

Calc ==
    /\ cpc = "call"
    /\ averaged' = calculate_trend_index(all_trends_data)
    /\ cpc' = "returned"
    /\ UNCHANGED <<all_trends_data, now_year, pvars, fvars, xvars, mvars>>

CalcNext == Calc

SpecCalc == CalcInit /\ [][CalcNext]_vars

----------------------------------------------------------------------------
(* The answers main's requests get *)

NumKeywords == 2        \* len(KEYWORDS) in the model
MaxItems == 1           \* the longest timeline a trend request is answered with
MaxCandles == 2         \* the longest kline list the price request is answered with
MaxDay == 4             \* the dates of a run are WindowStart + 0..MaxDay

WindowStart == Date(2024, 12, 29)
WindowDates == {AddDays(WindowStart, n) : n \in 0..MaxDay}

TrendValues == {10, 21}
\* closing prices in thousandths: 0.000, 100.004, 250.006
Prices == {0, 100004, 250006}

TrendItems ==
    {Item(TextAbbrDY(d.month, d.day, d.year), <<RawInt(v)>>) :
        <<d, v>> \in WindowDates \X TrendValues}

\* a failed request, a timeline whose value int() rejects, or a timeline of
\* at most MaxItems items
TrendResponses ==
    {HttpError,
     Timeline(<<Item(TextAbbrDY(WindowStart.month, WindowStart.day, WindowStart.year),
                     <<RawText>>)>>)}
    \cup {Timeline(tl) : tl \in SeqsUpTo(TrendItems, MaxItems)}

PriceResponses ==
    {PriceError}
    \cup {Klines(data) :
             data \in SeqsUpTo({Candle(d, c) : <<d, c>> \in WindowDates \X Prices},
                               MaxCandles)}

----------------------------------------------------------------------------
(* find_closest_price on its own *)

ClosestCandles == 3     \* the most dates btc_prices has

ClosestPrices ==
    {fetch_bitcoin_price_daily(Klines(data)) :
        data \in SeqsUpTo({Candle(d, c) : <<d, c>> \in WindowDates \X Prices},
                          ClosestCandles)}

ClosestInit ==
    /\ target_date \in WindowDates
    /\ prices_arg \in ClosestPrices
    /\ max_days \in {0, 1, max_days_default}
    /\ closest = None
    /\ xpc = "call"
    /\ now_year = 2025
    /\ ParseIdle /\ FetchIdle /\ CalcIdle /\ MainIdle

Closest ==
    /\ xpc = "call"
    /\ closest' = find_closest_price(target_date, prices_arg, max_days)
    /\ xpc' = "returned"
    /\ UNCHANGED <<target_date, prices_arg, max_days, now_year, pvars, fvars, cvars,
                   mvars>>

ClosestNext == Closest

SpecClosest == ClosestInit /\ [][ClosestNext]_vars

----------------------------------------------------------------------------
(* main, run *)

Init ==
    /\ pc = "start"
    /\ SERPAPI_KEY \in BOOLEAN
    /\ kw = 1
    /\ fetched = <<>>
    /\ all_trends = <<>> /\ trend_index = <<>> /\ btc_prices = <<>>
    /\ sorted_dates = <<>> /\ di = 1
    /\ final_dates = <<>> /\ final_prices = <<>> /\ final_index = <<>>
    /\ data_file = None
    /\ outcome = "started"
    /\ now_year = 2025
    /\ ParseIdle /\ FetchIdle /\ CalcIdle /\ ClosestIdle

Rest == <<now_year, pvars, fvars, cvars, xvars>>

\* lines 155-157
NoKey ==
    /\ pc = "start" /\ ~SERPAPI_KEY
    /\ outcome' = "no_key"
    /\ pc' = "done"
    /\ UNCHANGED <<SERPAPI_KEY, kw, fetched, all_trends, trend_index, btc_prices,
                   sorted_dates, di, final_dates, final_prices, final_index, data_file>>
    /\ UNCHANGED Rest

\* line 161
Start ==
    /\ pc = "start" /\ SERPAPI_KEY
    /\ all_trends' = <<>>
    /\ pc' = "trends"
    /\ UNCHANGED <<SERPAPI_KEY, kw, fetched, trend_index, btc_prices, sorted_dates, di,
                   final_dates, final_prices, final_index, data_file, outcome>>
    /\ UNCHANGED Rest

\* the loop over KEYWORDS with a failed request ending the run
FetchTrendsAborting ==
    /\ pc = "trends" /\ kw <= NumKeywords
    /\ \E resp \in TrendResponses :
          LET trends == fetch_google_trends(resp, now_year)
          IN  /\ all_trends' = IF trends # <<>> THEN Append(all_trends, trends)
                               ELSE all_trends
              /\ fetched' = Append(fetched, resp)
              /\ IF FetchRaised(resp, now_year)
                 THEN pc' = "done" /\ outcome' = "no_trends"
                 ELSE UNCHANGED <<pc, outcome>>
    /\ kw' = kw + 1
    /\ UNCHANGED <<SERPAPI_KEY, trend_index, btc_prices, sorted_dates, di,
                   final_dates, final_prices, final_index, data_file>>
    /\ UNCHANGED Rest

\* lines 162-167: one turn of the loop over KEYWORDS
FetchTrends ==
    /\ pc = "trends" /\ kw <= NumKeywords
    /\ \E resp \in TrendResponses :
          LET trends == fetch_google_trends(resp, now_year)
          IN  /\ all_trends' = IF trends # <<>> THEN Append(all_trends, trends)
                               ELSE all_trends
              /\ fetched' = Append(fetched, resp)
    /\ kw' = kw + 1
    /\ UNCHANGED <<pc, SERPAPI_KEY, trend_index, btc_prices, sorted_dates, di,
                   final_dates, final_prices, final_index, data_file, outcome>>
    /\ UNCHANGED Rest

\* lines 169-171
NoTrends ==
    /\ pc = "trends" /\ kw > NumKeywords /\ all_trends = <<>>
    /\ outcome' = "no_trends"
    /\ pc' = "done"
    /\ UNCHANGED <<SERPAPI_KEY, kw, fetched, all_trends, trend_index, btc_prices,
                   sorted_dates, di, final_dates, final_prices, final_index, data_file>>
    /\ UNCHANGED Rest

\* lines 174-176
Calculate ==
    /\ pc = "trends" /\ kw > NumKeywords /\ all_trends # <<>>
    /\ trend_index' = calculate_trend_index(all_trends)
    /\ pc' = "price"
    /\ UNCHANGED <<SERPAPI_KEY, kw, fetched, all_trends, btc_prices, sorted_dates, di,
                   final_dates, final_prices, final_index, data_file, outcome>>
    /\ UNCHANGED Rest

\* lines 179-194
FetchPrice ==
    /\ pc = "price"
    /\ \E resp \in PriceResponses :
          LET prices == fetch_bitcoin_price_daily(resp)
          IN  /\ btc_prices' = prices
              /\ IF prices = <<>>
                 THEN /\ outcome' = "no_price"
                      /\ pc' = "done"
                      /\ UNCHANGED <<sorted_dates, di, final_dates, final_prices,
                                     final_index>>
                 ELSE /\ sorted_dates' = sorted(DOMAIN trend_index)
                      /\ di' = 1
                      /\ final_dates' = <<>>
                      /\ final_prices' = <<>>
                      /\ final_index' = <<>>
                      /\ pc' = "align"
                      /\ UNCHANGED outcome
    /\ UNCHANGED <<SERPAPI_KEY, kw, fetched, all_trends, trend_index, data_file>>
    /\ UNCHANGED Rest

\* the loop over sorted_dates with the index appended outside the test
AlignIndexAlways ==
    /\ pc = "align" /\ di <= Len(sorted_dates)
    /\ LET date == sorted_dates[di]
           price == find_closest_price(date, btc_prices, max_days_default)
       IN  /\ IF Truthy(price)
              THEN /\ final_dates' = Append(final_dates, strftime(date))
                   /\ final_prices' = Append(final_prices, Round2(price.val))
              ELSE UNCHANGED <<final_dates, final_prices>>
           /\ final_index' = Append(final_index, trend_index[date])
    /\ di' = di + 1
    /\ UNCHANGED <<pc, SERPAPI_KEY, kw, fetched, all_trends, trend_index, btc_prices,
                   sorted_dates, data_file, outcome>>
    /\ UNCHANGED Rest

\* lines 196-201: one turn of the loop over sorted_dates
Align ==
    /\ pc = "align" /\ di <= Len(sorted_dates)
    /\ LET date == sorted_dates[di]
           price == find_closest_price(date, btc_prices, max_days_default)
       IN  IF Truthy(price)
           THEN /\ final_dates' = Append(final_dates, strftime(date))
                /\ final_prices' = Append(final_prices, Round2(price.val))
                /\ final_index' = Append(final_index, trend_index[date])
           ELSE UNCHANGED <<final_dates, final_prices, final_index>>
    /\ di' = di + 1
    /\ UNCHANGED <<pc, SERPAPI_KEY, kw, fetched, all_trends, trend_index, btc_prices,
                   sorted_dates, data_file, outcome>>
    /\ UNCHANGED Rest

\* lines 203-205
NoAlign ==
    /\ pc = "align" /\ di > Len(sorted_dates) /\ final_dates = <<>>
    /\ outcome' = "no_align"
    /\ pc' = "done"
    /\ UNCHANGED <<SERPAPI_KEY, kw, fetched, all_trends, trend_index, btc_prices,
                   sorted_dates, di, final_dates, final_prices, final_index, data_file>>
    /\ UNCHANGED Rest

\* the save without the test of lines 203-205 before it
SaveUnchecked ==
    /\ pc = "align" /\ di > Len(sorted_dates)
    /\ data_file' = Some(Output(final_dates, final_prices, final_index))
    /\ outcome' = "saved"
    /\ pc' = "done"
    /\ UNCHANGED <<SERPAPI_KEY, kw, fetched, all_trends, trend_index, btc_prices,
                   sorted_dates, di, final_dates, final_prices, final_index>>
    /\ UNCHANGED Rest

\* lines 208-223
Save ==
    /\ pc = "align" /\ di > Len(sorted_dates) /\ final_dates # <<>>
    /\ data_file' = Some(Output(final_dates, final_prices, final_index))
    /\ outcome' = "saved"
    /\ pc' = "done"
    /\ UNCHANGED <<SERPAPI_KEY, kw, fetched, all_trends, trend_index, btc_prices,
                   sorted_dates, di, final_dates, final_prices, final_index>>
    /\ UNCHANGED Rest

Next ==
    \/ NoKey \/ Start \/ FetchTrends \/ NoTrends \/ Calculate \/ FetchPrice
    \/ Align \/ NoAlign \/ Save

Spec == Init /\ [][Next]_vars

----------------------------------------------------------------------------
(* Notions the properties are stated with *)

Abs(n) == IF n < 0 THEN -n ELSE n

\* the distance in days between two dates
Dist(a, b) == Abs(toordinal(a) - toordinal(b))

Range(q) == {q[i] : i \in 1..Len(q)}

\* the dates of prices within tol days of dt
Candidates(dt, prices, tol) == {p \in DOMAIN prices : Dist(p, dt) <= tol}

\* the candidate nearest to dt, the earlier of two at the same distance
Nearest(dt, prices, tol) ==
    CHOOSE p \in Candidates(dt, prices, tol) :
        \A q \in Candidates(dt, prices, tol) \ {p} :
            \/ Dist(p, dt) < Dist(q, dt)
            \/ Dist(p, dt) = Dist(q, dt) /\ DateLess(p, q)

\* Python's < on two texts given by their character codes
RECURSIVE TextLess(_, _)
TextLess(a, b) ==
    IF b = <<>> THEN FALSE
    ELSE IF a = <<>> THEN TRUE
    ELSE IF Head(a) # Head(b) THEN Head(a) < Head(b)
    ELSE TextLess(Tail(a), Tail(b))

\* main has entered or passed the alignment loop
Aligning == pc = "align" \/ (pc = "done" /\ outcome \in {"saved", "no_align"})

----------------------------------------------------------------------------
(* C1 *)

\* C1: when main has written the artifact, dates, btc_prices and trend_index
\* have the same length, dates is strictly ascending as text, and at every
\* index i the price and the index value are the ones joined for dates[i]: the
\* rounded closest price of that date and the trend index of that date.
C1_ParallelArrays ==
    ~data_file.none =>
        LET o == data_file.val
        IN  /\ Len(o.dates) = Len(o.btc_prices)
            /\ Len(o.dates) = Len(o.trend_index)
            /\ \A i, j \in 1..Len(o.dates) : i < j => TextLess(o.dates[i], o.dates[j])
            /\ \A i \in 1..Len(o.dates) :
                  \E d \in DOMAIN trend_index :
                     /\ strftime(d) = o.dates[i]
                     /\ o.trend_index[i] = trend_index[d]
                     /\ LET r == find_closest_price(d, btc_prices, max_days_default)
                        IN  ~r.none /\ o.btc_prices[i] = Round2(r.val)

\* an artifact of two rows with different prices and different index values
C1_Witness ==
    /\ ~data_file.none
    /\ Len(data_file.val.dates) = 2
    /\ data_file.val.btc_prices[1] # data_file.val.btc_prices[2]
    /\ data_file.val.trend_index[1] # data_file.val.trend_index[2]

----------------------------------------------------------------------------
(* C2 *)

\* C2 as claimed: every date of the output is a date of the price series, and
\* every price date with a score date within tolerance is in the output
\* (stated for the runs in which no price is zero, where line 198 plays no part).
C2_PriceDriven ==
    (outcome = "saved" /\ \A p \in DOMAIN btc_prices : btc_prices[p] # 0) =>
        /\ \A i \in 1..Len(final_dates) :
              \E p \in DOMAIN btc_prices : strftime(p) = final_dates[i]
        /\ \A p \in DOMAIN btc_prices :
              Candidates(p, trend_index, max_days_default) # {}
                  => strftime(p) \in Range(final_dates)

\* does the alignment emit the score date dt
Emits(dt) ==
    /\ Candidates(dt, btc_prices, max_days_default) # {}
    /\ btc_prices[Nearest(dt, btc_prices, max_days_default)] # 0

\* C2 amended: the join is driven by the aggregated score series. sorted_dates
\* is the dates of trend_index in ascending order, each once; the loop has
\* handled the first di - 1 of them, and final_dates is, in that order, the
\* texts of the handled score dates whose closest price within tolerance is
\* not zero. So every output date is a score date, and every score date with
\* a non-zero closest price within tolerance is in the output.
C2_ScoreDriven ==
    Aligning =>
        /\ Range(sorted_dates) = DOMAIN trend_index
        /\ \A i, j \in 1..Len(sorted_dates) :
              i < j => DateLess(sorted_dates[i], sorted_dates[j])
        /\ di \in 1..(Len(sorted_dates) + 1)
        /\ LET handled == SelectSeq(SubSeq(sorted_dates, 1, di - 1), Emits)
           IN  final_dates = [i \in 1..Len(handled) |-> strftime(handled[i])]

\* a saved run whose output holds two dates, one of them no date of the price
\* series
C2_Witness ==
    /\ outcome = "saved"
    /\ Len(final_dates) = 2
    /\ \E i \in 1..Len(final_dates) :
          \A p \in DOMAIN btc_prices : strftime(p) # final_dates[i]

----------------------------------------------------------------------------
(* C3 *)

\* C3 as claimed: a date handled by the alignment loop is in the output if and
\* only if the price series has a date at most max_days = 3 days from it.
C3_EmittedIffWithinTolerance ==
    Aligning =>
        \A j \in 1..(di - 1) :
            (strftime(sorted_dates[j]) \in Range(final_dates))
                <=> (Candidates(sorted_dates[j], btc_prices, max_days_default) # {})

----------------------------------------------------------------------------
(* C4 *)

\* C4 as claimed: parse_trend_date of "Jan 5 – 11, 2025" is 2025-01-05 in
\* whatever year it runs.
C4_RangeKeepsItsYear ==
    (ppc = "returned" /\ date_str = TextRange(1, 5, 11, 2025, EnDash)) =>
        (~parsed.none /\ parsed.val = Date(2025, 1, 5))

----------------------------------------------------------------------------
(* C5 *)

\* C5 as claimed: parse_trend_date of an ISO text YYYY-MM-DD is that date.
C5_IsoAccepted ==
    \A m \in PMonths, d \in PDays, y \in PYears :
        (ppc = "returned" /\ date_str = TextISO(m, d, y) /\ ValidDate(y, m, d)) =>
            (~parsed.none /\ parsed.val = Date(y, m, d))

----------------------------------------------------------------------------
(* C6 *)

\* can the date and the value of the item be parsed
Parseable(item, now) ==
    /\ ~parse_trend_date(item.date, now).none
    /\ item.values # <<>>
    /\ ~ConvertValue(item.values[1]).none

\* C6 as claimed: when the request is answered with a timeline,
\* fetch_google_trends returns the records of all the items that can be
\* parsed, in order: an item that cannot be parsed costs only itself.
C6_OnlyTheRecordSkipped ==
    (fpc = "returned" /\ response.status = "ok" /\ response.has_timeline) =>
        LET good == SelectSeq(response.timeline, LAMBDA it : Parseable(it, now_year))
        IN  ret = [i \in 1..Len(good) |->
                      Point(parse_trend_date(good[i].date, now_year).val,
                            ConvertValue(good[i].values[1]).val)]

----------------------------------------------------------------------------
(* C7 *)

\* what the requests that did not fail returned, in the order of KEYWORDS
Succeeded ==
    LET ok == SelectSeq(fetched, LAMBDA resp : ~FetchRaised(resp, now_year))
    IN  [i \in 1..Len(ok) |-> fetch_google_trends(ok[i], now_year)]

\* C7: once the loop over KEYWORDS is over, every keyword was requested,
\* whichever requests failed, and the aggregated index is the one computed
\* from the keywords whose request did not fail.
C7_FailedKeywordDropped ==
    (SERPAPI_KEY /\ pc \notin {"start", "trends"}) =>
        /\ Len(fetched) = NumKeywords
        /\ trend_index = calculate_trend_index(Succeeded)

\* the first request failed, a later one did not, and the index is there
C7_Witness ==
    /\ pc = "price"
    /\ FetchRaised(fetched[1], now_year)
    /\ Len(Succeeded) = NumKeywords - 1
    /\ DOMAIN trend_index # {}

----------------------------------------------------------------------------
(* C8 *)

\* C8: the artifact is written only in a run that ends "saved", in which some
\* keyword returned data, the price fetch returned a price and a date survived
\* the alignment; a run that gets no price ends "no_price" and never reaches
\* the alignment; a run in which no date survives ends "no_align", which is
\* reported only after data of both sources was there; neither writes.
C8_WriteOnlyOnSuccess ==
    /\ ~data_file.none =>
          /\ outcome = "saved" /\ pc = "done"
          /\ \E k \in 1..Len(fetched) : fetch_google_trends(fetched[k], now_year) # <<>>
          /\ btc_prices # <<>>
          /\ data_file.val.dates # <<>>
    /\ pc = "done" => outcome \in {"no_key", "no_trends", "no_price", "no_align", "saved"}
    /\ (pc = "done" /\ outcome # "saved") => data_file.none
    /\ pc = "align" => btc_prices # <<>>
    /\ outcome = "no_price" => (pc = "done" /\ btc_prices = <<>> /\ final_dates = <<>>)
    /\ outcome = "no_align" =>
          (pc = "done" /\ btc_prices # <<>> /\ all_trends # <<>> /\ final_dates = <<>>)
    /\ (pc = "done" /\ outcome \in {"saved", "no_align"}) =>
          (outcome = "no_align" <=> final_dates = <<>>)

\* a run that ended "no_align" with trends and prices fetched
C8_Witness ==
    /\ pc = "done" /\ outcome = "no_align"
    /\ DOMAIN trend_index # {} /\ DOMAIN btc_prices # {}
    /\ data_file.none

----------------------------------------------------------------------------
(* C9 *)

\* C9: find_closest_price returns None when no price date is within max_days
\* of the target date, and otherwise the price of the price date at the least
\* distance, the earlier date when two are at that distance; when the target
\* date has a price of its own, that price, unchanged.
C9_NearestEarlierOnTie ==
    xpc = "returned" =>
        IF Candidates(target_date, prices_arg, max_days) = {}
        THEN closest.none
        ELSE /\ ~closest.none
             /\ closest.val = prices_arg[Nearest(target_date, prices_arg, max_days)]
             /\ target_date \in DOMAIN prices_arg => closest.val = prices_arg[target_date]

\* a target date with no price of its own, prices, different, one day before
\* and one day after it and a third price further away: the earlier of the two
\* nearest was returned
C9_Witness ==
    /\ xpc = "returned"
    /\ max_days = max_days_default
    /\ Cardinality(DOMAIN prices_arg) = 3
    /\ target_date \notin DOMAIN prices_arg
    /\ AddDays(target_date, -1) \in DOMAIN prices_arg
    /\ AddDays(target_date, 1) \in DOMAIN prices_arg
    /\ prices_arg[AddDays(target_date, -1)] # prices_arg[AddDays(target_date, 1)]
    /\ ~closest.none
    /\ closest.val = prices_arg[AddDays(target_date, -1)]

----------------------------------------------------------------------------
(* C10 *)

\* the places <<k, j>> of the points of date dt in all_trends_data
PointsOf(dt) ==
    {<<k, j>> \in (1..Len(all_trends_data)) \X (1..Cardinality(CalcDates)) :
        /\ j <= Len(all_trends_data[k])
        /\ DateOf(all_trends_data[k][j].date) = dt}

RECURSIVE Total(_)
Total(places) ==
    IF places = {} THEN 0
    ELSE LET pl == CHOOSE x \in places : TRUE
         IN  all_trends_data[pl[1]][pl[2]].value + Total(places \ {pl})

ValuesOf(dt) == {all_trends_data[pl[1]][pl[2]].value : pl \in PointsOf(dt)}

Permuted(f) == [i \in 1..Len(all_trends_data) |-> all_trends_data[f[i]]]

\* C10: the mapping returned has exactly the dates of the points of the
\* keyword lists; at each date its value is within half a tenth of the mean of
\* the values of that date, so 15.0 for 10, 20, 15 and 15.5 for 10, 21; it
\* is the same for every reordering of the keyword lists, and empty for no
\* list.
C10_MeanPerDate ==
    cpc = "returned" =>
        /\ DOMAIN averaged = {dt \in CalcDates : PointsOf(dt) # {}}
        /\ \A dt \in DOMAIN averaged :
              LET n == Cardinality(PointsOf(dt))
                  total == Total(PointsOf(dt))
              IN  /\ 2 * Abs(10 * total - n * averaged[dt]) <= n
                  /\ (n = 3 /\ ValuesOf(dt) = {10, 20, 15}) => averaged[dt] = 150
                  /\ (n = 2 /\ ValuesOf(dt) = {10, 21}) => averaged[dt] = 155
        /\ \A f \in Permutations(1..Len(all_trends_data)) :
              calculate_trend_index(Permuted(f)) = averaged
        /\ all_trends_data = <<>> => averaged = <<>>

\* three keyword lists, the second without the first date: 10, 20, 15 at one
\* date and 10, 21 at the other
C10_Witness ==
    /\ cpc = "returned"
    /\ Len(all_trends_data) = 3
    /\ \E dt \in DOMAIN averaged, du \in DOMAIN averaged :
          /\ Cardinality(PointsOf(dt)) = 3 /\ ValuesOf(dt) = {10, 20, 15}
          /\ averaged[dt] = 150
          /\ Cardinality(PointsOf(du)) = 2 /\ ValuesOf(du) = {10, 21}
          /\ averaged[du] = 155

====
